---- MODULE Spec2Model ----
(***************************************************************************)
(* Auto-Bike backend: request/acknowledgment correlation                   *)
(* (BikeService.test_bike_connection / handle_bike_response over the       *)
(* shared key-value store, and ConnectionTracker over asyncio events),     *)
(* command dispatch (BikeService.send_command / send_navigation) and the   *)
(* Redis -> MQTT relay (RedisSubscriber.listen_for_messages).              *)
(*                                                                         *)
(* Time is discrete, one unit = one second.  Synchronous statements take   *)
(* no time; time passes only while a coroutine is suspended                *)
(* (asyncio.sleep, asyncio.wait_for) or between requests.                  *)
(***************************************************************************)
EXTENDS Integers, Sequences, FiniteSets, TLC

(* ---------------------------------------------------------------------- *)
(* Bounds of the model                                                     *)
(* ---------------------------------------------------------------------- *)
NumProbes == 2
MaxSignals == 2
MaxTimeout == 2
MaxReceivers == 2
MaxCalls == 2
MaxItems == 3

(* ---------------------------------------------------------------------- *)
(* Program constants                                                       *)
(* ---------------------------------------------------------------------- *)
PollCount == 10
SleepSecs == 1
WaitingTTL == 10
AckTTL == 30

Bikes == {"b1", "b2"}
BIKE_ID == "b1"
TopicPrefix == "bike/"
Probes == 1..NumProbes
NoProbe == 0
Timeouts == 1..MaxTimeout

VARIABLES
  \* shared key-value store: the record ack:<bike_id>
  store,
  \* ConnectionTracker.pending_responses: bike_id -> event (NoProbe = no entry);
  \* an event is identified by the probe whose create_event made it
  pending_responses,
  \* asyncio.Event._value of each event
  eventSet,
  \* one connection test per probe: position, subject, form, loop index,
  \* remaining sleep / timeout, event awaited, publish return value, result
  pc, bike, form, polls, timer, waitEv, pubCount, result,
  \* history of the run, read only by the properties
  nsig, sigAfter, sigInTime, prior, latest, track, lastAck, lastSet,
  \* more history: seconds a probe stayed in flight after a signal that came
  \* before its deadline; what the last handle_bike_response / set_response
  \* found and left behind
  sinceSig, ackNote, setNote,
  \* one entry per call of send_command / send_navigation: the request, the
  \* publishes it made on mqtt_channel and what it returned or raised
  cmdLog,
  \* the for loop over pubsub.listen() is still running
  relayAlive,
  \* one entry per item the loop took from pubsub.listen()
  relayLog

corrVars == <<store, pending_responses, eventSet, pc, bike, form, polls, timer,
              waitEv, pubCount, result, nsig, sigAfter, sigInTime, prior,
              latest, track, lastAck, lastSet, sinceSig, ackNote, setNote>>

noteVars == <<sinceSig, ackNote, setNote>>

cmdVars == <<cmdLog>>
relayVars == <<relayAlive, relayLog>>

NoRecord == [val |-> "none", ttl |-> 0]
NoReply == [bike |-> "none", status |-> "none", waiter |-> FALSE, done |-> {}]
NoAckNote == [bike |-> "none", before |-> "none", after |-> NoRecord]
NoSetNote == [bike |-> "none", entry |-> NoProbe, fired |-> FALSE, kept |-> TRUE,
              ever |-> FALSE]

\* IDataStore.get: an expired record reads as absent
Get(b) == store[b].val

\* a connection test that has created its wait and has not returned
InFlight(p) == pc[p] \in {"poll", "sleep", "created", "waiting"}
Done(p) == pc[p] = "done"
Waiters(b) == {p \in Probes : bike[p] = b /\ InFlight(p)}
\* the connection tests of b whose await is under way
Awaiting(b) == {p \in Probes : bike[p] = b /\ pc[p] \in {"poll", "sleep", "waiting"}}
Finished(b) == {p \in Probes : bike[p] = b /\ Done(p)}

\* requests are numbered in the order they arrive
Arrived(p) == \A q \in 1..(p - 1) : pc[q] # "idle"

CorrInit ==
  /\ store = [b \in Bikes |-> NoRecord]
  /\ pending_responses = [b \in Bikes |-> NoProbe]
  /\ eventSet = [p \in Probes |-> FALSE]
  /\ pc = [p \in Probes |-> "idle"]
  /\ bike = [p \in Probes |-> "none"]
  /\ form = [p \in Probes |-> "none"]
  /\ polls = [p \in Probes |-> 0]
  /\ timer = [p \in Probes |-> 0]
  /\ waitEv = [p \in Probes |-> NoProbe]
  /\ pubCount = [p \in Probes |-> -1]
  /\ result = [p \in Probes |-> "none"]
  /\ nsig = [b \in Bikes |-> 0]
  /\ sigAfter = [p \in Probes |-> 0]
  /\ sigInTime = [p \in Probes |-> FALSE]
  /\ prior = [p \in Probes |-> {}]
  /\ latest = [b \in Bikes |-> NoProbe]
  /\ track = [p \in Probes |-> "none"]
  /\ lastAck = NoReply
  /\ lastSet = NoReply
  /\ sinceSig = [p \in Probes |-> 0]
  /\ ackNote = NoAckNote
  /\ setNote = NoSetNote

(* ---------------------------------------------------------------------- *)
(* History bookkeeping (reads the state, never changes the program state)  *)
(* ---------------------------------------------------------------------- *)
Min(a, b) == IF a < b THEN a ELSE b

\* seconds a polled probe has spent in its loop: whole passes plus the part
\* of the current sleep already slept
Elapsed(p) ==
  polls[p] * SleepSecs + (IF pc[p] = "sleep" THEN SleepSecs - timer[p] ELSE 0)

\* the probe is in its await and its deadline has not been reached
BeforeDeadline(p) ==
  \/ pc[p] = "waiting" /\ timer[p] > 0
  \/ pc[p] \in {"poll", "sleep"} /\ Elapsed(p) < PollCount * SleepSecs

NoteCreate(p, b) ==
  /\ prior' = [prior EXCEPT ![p] = Awaiting(b) \ {p}]
  /\ latest' = [latest EXCEPT ![b] = p]
  /\ track' = [q \in Probes |->
                 IF q = p THEN "created"
                 ELSE IF bike[q] = b /\ track[q] \in {"created", "signalled"}
                      THEN "broken" ELSE track[q]]

NoteSignal(b, f) ==
  /\ nsig' = [nsig EXCEPT ![b] = @ + 1]
  /\ sigAfter' = [q \in Probes |->
                    IF bike[q] = b /\ form[q] = f /\ InFlight(q)
                    THEN Min(sigAfter[q] + 1, MaxSignals) ELSE sigAfter[q]]
  /\ sigInTime' = [q \in Probes |->
                     sigInTime[q] \/
                       (bike[q] = b /\ form[q] = f /\ InFlight(q) /\ BeforeDeadline(q))]
  /\ track' = [q \in Probes |->
                 IF bike[q] = b /\ form[q] = f /\ track[q] = "created"
                 THEN "signalled" ELSE track[q]]

\* probe p starts its await (p itself), or runs its cleanup (the others)
TrackAwait(p) ==
  [track EXCEPT ![p] = IF @ = "signalled" THEN "awaited"
                       ELSE IF @ = "created" THEN "none" ELSE @]

TrackCleanup(p) ==
  [q \in Probes |->
     IF q # p /\ bike[q] = bike[p] /\ form[q] = form[p]
        /\ track[q] \in {"created", "signalled"}
     THEN "broken" ELSE track[q]]

SignalsLeft == nsig["b1"] + nsig["b2"] < MaxSignals

(* ---------------------------------------------------------------------- *)
(* ConnectionTracker (in-process event form)                               *)
(* ---------------------------------------------------------------------- *)
\* (mutation: the finally clause removes nothing)
Pop_Kept(d, b) == d

\* (mutation: the cleanup empties the whole dictionary)
Pop_Clear(d, b) == [x \in Bikes |-> NoProbe]

\* self.pending_responses.pop(bike_id, None)
Pop(d, b) == [d EXCEPT ![b] = NoProbe]

\* (mutation: the event is left unset)
SetEvent_Dropped(es, e) == es

\* self.pending_responses[bike_id].set()
SetEvent(es, e) == [es EXCEPT ![e] = TRUE]

\* (mutation: set_response returns True unconditionally)
SetResponseReturn_Always(d, b) == TRUE

\* set_response's return value: bike_id in self.pending_responses
SetResponseReturn(d, b) == d[b] # NoProbe

\* create_event: install a fresh, unset event under bike_id
create_event(p, b) ==
  /\ pc[p] = "idle"
  /\ Arrived(p)
  /\ pc' = [pc EXCEPT ![p] = "created"]
  /\ bike' = [bike EXCEPT ![p] = b]
  /\ form' = [form EXCEPT ![p] = "inprocess"]
  /\ pending_responses' = [pending_responses EXCEPT ![b] = p]
  /\ eventSet' = [eventSet EXCEPT ![p] = FALSE]
  /\ NoteCreate(p, b)
  /\ UNCHANGED <<store, polls, timer, waitEv, pubCount, result, nsig, sigAfter,
                 sigInTime, lastAck, lastSet>>
  /\ UNCHANGED <<cmdVars, relayVars>>
  /\ UNCHANGED noteVars

\* wait_for_response up to its suspension: self.pending_responses[bike_id]
\* is looked up once (KeyError when there is no entry: not caught, the
\* finally clause pops nothing), then the coroutine waits on that event
wait_for_response(p, t) ==
  /\ pc[p] = "created"
  /\ IF pending_responses[bike[p]] = NoProbe
     THEN /\ pc' = [pc EXCEPT ![p] = "done"]
          /\ result' = [result EXCEPT ![p] = "KeyError"]
          /\ pending_responses' = Pop(pending_responses, bike[p])
          /\ track' = TrackCleanup(p)
          /\ UNCHANGED <<waitEv, timer>>
     ELSE /\ pc' = [pc EXCEPT ![p] = "waiting"]
          /\ waitEv' = [waitEv EXCEPT ![p] = pending_responses[bike[p]]]
          /\ timer' = [timer EXCEPT ![p] = t]
          /\ track' = TrackAwait(p)
          /\ UNCHANGED <<result, pending_responses>>
  /\ UNCHANGED <<store, eventSet, bike, form, polls, pubCount, nsig, sigAfter,
                 sigInTime, prior, latest, lastAck, lastSet>>
  /\ UNCHANGED <<cmdVars, relayVars>>
  /\ UNCHANGED noteVars

\* the event was set: return success, then the finally clause
wait_success(p) ==
  /\ pc[p] = "waiting"
  /\ eventSet[waitEv[p]]
  /\ pc' = [pc EXCEPT ![p] = "done"]
  /\ result' = [result EXCEPT ![p] = "success"]
  /\ pending_responses' = Pop(pending_responses, bike[p])
  /\ track' = TrackCleanup(p)
  /\ UNCHANGED <<store, eventSet, bike, form, polls, timer, waitEv, pubCount,
                 nsig, sigAfter, sigInTime, prior, latest, lastAck,
                 lastSet>>
  /\ UNCHANGED <<cmdVars, relayVars>>
  /\ UNCHANGED noteVars

\* asyncio.TimeoutError: return failed, then the finally clause
wait_timeout(p) ==
  /\ pc[p] = "waiting"
  /\ timer[p] = 0
  /\ pc' = [pc EXCEPT ![p] = "done"]
  /\ result' = [result EXCEPT ![p] = "failed"]
  /\ pending_responses' = Pop(pending_responses, bike[p])
  /\ track' = TrackCleanup(p)
  /\ UNCHANGED <<store, eventSet, bike, form, polls, timer, waitEv, pubCount,
                 nsig, sigAfter, sigInTime, prior, latest, lastAck,
                 lastSet>>
  /\ UNCHANGED <<cmdVars, relayVars>>
  /\ UNCHANGED noteVars

\* set_response: set the event if an entry exists; return whether it did
set_response(b) ==
  /\ SignalsLeft
  /\ LET present == pending_responses[b] # NoProbe IN
     /\ eventSet' = IF present
                    THEN SetEvent(eventSet, pending_responses[b])
                    ELSE eventSet
     /\ lastSet' = [bike |-> b,
                    status |-> IF SetResponseReturn(pending_responses, b)
                               THEN "True" ELSE "False",
                    waiter |-> \E q \in Waiters(b) : form[q] = "inprocess",
                    done |-> Finished(b)]
  /\ NoteSignal(b, "inprocess")
  /\ UNCHANGED <<store, pending_responses, pc, bike, form, polls, timer, waitEv,
                 pubCount, result, prior, latest, lastAck>>
  /\ UNCHANGED <<cmdVars, relayVars>>
  /\ setNote' = [bike |-> b,
                 entry |-> pending_responses[b],
                 fired |-> pending_responses[b] # NoProbe /\ eventSet'[pending_responses[b]],
                 kept |-> pending_responses' = pending_responses,
                 ever |-> \E q \in Probes : bike[q] = b /\ form[q] = "inprocess"]
  /\ UNCHANGED <<sinceSig, ackNote>>

(* ---------------------------------------------------------------------- *)
(* BikeService.test_bike_connection / handle_bike_response (polled form)   *)
(* ---------------------------------------------------------------------- *)
\* ack_status == "acknowledged"
PollSees(v) == v = "acknowledged"

\* (mutation: SET ... NX, an existing record is not overwritten)
WaitingWrite_IfAbsent(st, b) ==
  IF st[b].val = "none"
  THEN [st EXCEPT ![b] = [val |-> "waiting", ttl |-> WaitingTTL]]
  ELSE st

\* self.data_store.set(redis_key, "waiting", ex=10)
WaitingWrite(st, b) == [st EXCEPT ![b] = [val |-> "waiting", ttl |-> WaitingTTL]]

\* (mutation: SET ... XX, only an existing record is overwritten)
AckWrite_IfPresent(st, b) ==
  IF st[b].val = "none"
  THEN st
  ELSE [st EXCEPT ![b] = [val |-> "acknowledged", ttl |-> AckTTL]]

\* self.data_store.set(redis_key, "acknowledged", ex=30)
AckWrite(st, b) == [st EXCEPT ![b] = [val |-> "acknowledged", ttl |-> AckTTL]]

\* the status handle_bike_response returns
HandleStatus(b) == "success"

\* self.publisher.publish("mqtt_channel", ...): n receivers; the return
\* value is not looked at
tbc_publish(p, b, n) ==
  /\ pc[p] = "idle"
  /\ Arrived(p)
  /\ pc' = [pc EXCEPT ![p] = "published"]
  /\ bike' = [bike EXCEPT ![p] = b]
  /\ form' = [form EXCEPT ![p] = "polled"]
  /\ pubCount' = [pubCount EXCEPT ![p] = n]
  /\ UNCHANGED <<store, pending_responses, eventSet, polls, timer, waitEv,
                 result, nsig, sigAfter, sigInTime, prior, latest, track,
                 lastAck, lastSet>>
  /\ UNCHANGED <<cmdVars, relayVars>>
  /\ UNCHANGED noteVars

\* self.data_store.set(redis_key, "waiting", ex=10)
tbc_set_waiting(p) ==
  /\ pc[p] = "published"
  /\ pc' = [pc EXCEPT ![p] = "poll"]
  /\ store' = WaitingWrite(store, bike[p])
  /\ polls' = [polls EXCEPT ![p] = 0]
  /\ NoteCreate(p, bike[p])
  /\ UNCHANGED <<pending_responses, eventSet, bike, form, timer, waitEv,
                 pubCount, result, nsig, sigAfter, sigInTime, lastAck,
                 lastSet>>
  /\ UNCHANGED <<cmdVars, relayVars>>
  /\ UNCHANGED noteVars

\* one pass of the loop body up to the sleep
tbc_poll(p) ==
  /\ pc[p] = "poll"
  /\ IF PollSees(Get(bike[p]))
     THEN /\ pc' = [pc EXCEPT ![p] = "done"]
          /\ result' = [result EXCEPT ![p] = "success"]
          /\ UNCHANGED timer
     ELSE /\ pc' = [pc EXCEPT ![p] = "sleep"]
          /\ timer' = [timer EXCEPT ![p] = SleepSecs]
          /\ UNCHANGED result
  /\ track' = IF polls[p] = 0 THEN TrackAwait(p) ELSE track
  /\ UNCHANGED <<store, pending_responses, eventSet, bike, form, polls, waitEv,
                 pubCount, nsig, sigAfter, sigInTime, prior, latest, lastAck, lastSet>>
  /\ UNCHANGED <<cmdVars, relayVars>>
  /\ UNCHANGED noteVars

\* the sleep is over: next pass, or the loop is exhausted and the call
\* returns failed
tbc_wake(p) ==
  /\ pc[p] = "sleep"
  /\ timer[p] = 0
  /\ polls' = [polls EXCEPT ![p] = @ + 1]
  /\ IF polls[p] + 1 = PollCount
     THEN /\ pc' = [pc EXCEPT ![p] = "done"]
          /\ result' = [result EXCEPT ![p] = "failed"]
     ELSE /\ pc' = [pc EXCEPT ![p] = "poll"]
          /\ UNCHANGED result
  /\ UNCHANGED <<store, pending_responses, eventSet, bike, form, timer, waitEv,
                 pubCount, nsig, sigAfter, sigInTime, prior, latest, track,
                 lastAck, lastSet>>
  /\ UNCHANGED <<cmdVars, relayVars>>
  /\ UNCHANGED noteVars

\* handle_bike_response: overwrite the record, return the success shape
handle_bike_response(b) ==
  /\ SignalsLeft
  /\ store' = AckWrite(store, b)
  /\ lastAck' = [bike |-> b,
                 status |-> HandleStatus(b),
                 waiter |-> \E q \in Waiters(b) : form[q] = "polled",
                 done |-> Finished(b)]
  /\ NoteSignal(b, "polled")
  /\ UNCHANGED <<pending_responses, eventSet, pc, bike, form, polls, timer,
                 waitEv, pubCount, result, prior, latest, lastSet>>
  /\ UNCHANGED <<cmdVars, relayVars>>
  /\ ackNote' = [bike |-> b, before |-> Get(b), after |-> store'[b]]
  /\ UNCHANGED <<sinceSig, setNote>>

(* ---------------------------------------------------------------------- *)
(* Passage of time                                                         *)
(* ---------------------------------------------------------------------- *)
\* a coroutine that can run now runs before the clock advances
Urgent(p) ==
  \/ pc[p] \in {"published", "poll"}
  \/ pc[p] = "sleep" /\ timer[p] = 0
  \/ pc[p] = "waiting" /\ (timer[p] = 0 \/ eventSet[waitEv[p]])

\* one second: sleeps and timeouts run down, records age and expire
Tick ==
  /\ \A p \in Probes : ~Urgent(p)
  /\ \/ \E p \in Probes : pc[p] \in {"sleep", "waiting"}
     \/ \E b \in Bikes : store[b].ttl > 0
  /\ timer' = [p \in Probes |->
                 IF pc[p] \in {"sleep", "waiting"} THEN timer[p] - 1 ELSE timer[p]]
  /\ store' = [b \in Bikes |->
                 IF store[b].ttl > 1 THEN [store[b] EXCEPT !.ttl = @ - 1]
                 ELSE NoRecord]
  /\ UNCHANGED <<pending_responses, eventSet, pc, bike, form, polls, waitEv,
                 pubCount, result, nsig, sigAfter, sigInTime, prior, latest,
                 track, lastAck, lastSet>>
  /\ UNCHANGED <<cmdVars, relayVars>>
  /\ sinceSig' = [p \in Probes |->
                    IF sigInTime[p] /\ InFlight(p)
                    THEN Min(sinceSig[p] + 1, SleepSecs + 1) ELSE sinceSig[p]]
  /\ UNCHANGED <<ackNote, setNote>>

\* the correlation operations on the subjects of B
CorrNextOver(B) ==
  \/ \E p \in Probes, b \in B : create_event(p, b)
  \/ \E p \in Probes, t \in Timeouts : wait_for_response(p, t)
  \/ \E p \in Probes : wait_success(p)
  \/ \E p \in Probes : wait_timeout(p)
  \/ \E b \in B : set_response(b)
  \/ \E p \in Probes, b \in B, n \in 0..MaxReceivers : tbc_publish(p, b, n)
  \/ \E p \in Probes : tbc_set_waiting(p)
  \/ \E p \in Probes : tbc_poll(p)
  \/ \E p \in Probes : tbc_wake(p)
  \/ \E b \in B : handle_bike_response(b)
  \/ Tick

(* ---------------------------------------------------------------------- *)
(* Command dispatch: BikeService.send_command / send_navigation            *)
(* ---------------------------------------------------------------------- *)
\* (mutation: navigate is let through the vocabulary check)
valid_commands_WithNavigate ==
  {"forward", "backward", "left", "right", "stop", "center", "navigate"}

valid_commands == {"forward", "backward", "left", "right", "stop", "center"}

\* the command strings a request may carry
CommandInputs == valid_commands \cup {"spin", "navigate", ""}

\* (mutation: published_count >= 0)
Delivered_NonNegative(n) == n >= 0

\* published_count > 0
Delivered(n) == n > 0

\* the message put on mqtt_channel
Envelope(topic, command) == [topic |-> topic, command |-> command]

\* what the call gives back for a publish that reached n receivers
DispatchOutcome(n) ==
  IF Delivered(n)
  THEN [kind |-> "return", status |-> "sent", redis_receivers |-> n]
  ELSE [kind |-> "HTTPException", status |-> "500", redis_receivers |-> -1]

ValidationOutcome == [kind |-> "HTTPException", status |-> "400", redis_receivers |-> -1]

\* send_command, as a function of the request and of the transport's answer:
\* the publishes made (with the count each returned) and the outcome
SendCommandRun(b, c, n) ==
  IF c \notin valid_commands
  THEN [op |-> "send_command", command |-> c, count |-> n,
        published |-> <<>>, outcome |-> ValidationOutcome]
  ELSE [op |-> "send_command", command |-> c, count |-> n,
        published |-> <<Envelope(b, c)>>, outcome |-> DispatchOutcome(n)]

SendNavigationRun(b, n) ==
  [op |-> "send_navigation", command |-> "navigate", count |-> n,
   published |-> <<Envelope(b, "navigate")>>, outcome |-> DispatchOutcome(n)]

CmdInit == cmdLog = <<>>

send_command(b, c, n) ==
  /\ Len(cmdLog) < MaxCalls
  /\ cmdLog' = Append(cmdLog, SendCommandRun(b, c, n))
  /\ UNCHANGED <<corrVars, relayVars>>

send_navigation(b, n) ==
  /\ Len(cmdLog) < MaxCalls
  /\ cmdLog' = Append(cmdLog, SendNavigationRun(b, n))
  /\ UNCHANGED <<corrVars, relayVars>>

CmdNext ==
  \/ \E c \in CommandInputs, n \in 0..MaxReceivers : send_command(BIKE_ID, c, n)
  \/ \E n \in 0..MaxReceivers : send_navigation(BIKE_ID, n)

(* ---------------------------------------------------------------------- *)
(* Relay: RedisSubscriber.listen_for_messages, MQTTHandler.publish_message *)
(* ---------------------------------------------------------------------- *)
\* Field values of an envelope: "absent" = the key is missing; "{}" (the
\* empty object) is present but falsy in Python; the others are present and
\* truthy.
TopicValues == {"absent", "bike7"}
PayloadValues == {"absent", "{}", "stop"}

\* What pubsub.listen() can yield: the subscribe confirmation, or a message
\* whose data is not JSON text, is JSON but no object (an array, a number or
\* string), or is a JSON object.
Items ==
  {[type |-> "subscribe", data |-> "none", topic |-> "absent", payload |-> "absent"]}
  \cup {[type |-> "message", data |-> d, topic |-> "absent", payload |-> "absent"] :
          d \in {"notjson", "array", "scalar"}}
  \cup {[type |-> "message", data |-> "object", topic |-> t, payload |-> y] :
          t \in TopicValues, y \in PayloadValues}

\* bool(x) of a value obtained with dict.get: None and {} are falsy
Truthy(x) == x \notin {"absent", "{}"}

\* the condition `topic and payload`
Forwardable(topic, payload) == Truthy(topic) /\ Truthy(payload)

\* MQTTHandler.publish_message: the calls of client.publish it makes, for
\* the link state (is_connected / reconnect) and the broker's result code
publish_message(bike_id, message, link, rc) ==
  IF link = "down_reconnect_fails"
  THEN [broker |-> <<>>, ret |-> "None"]
  ELSE [broker |-> <<[topic |-> <<TopicPrefix, bike_id>>, payload |-> message]>>,
        ret |-> IF rc = "MQTT_ERR_SUCCESS" THEN "mid" ELSE "None"]

Links == {"up", "down_reconnect_ok", "down_reconnect_fails"}
ResultCodes == {"MQTT_ERR_SUCCESS", "MQTT_ERR_NO_CONN"}

\* One pass of the loop body for item m: what was handed to publish_message,
\* what reached client.publish, and whether the loop goes on.
\*   json.loads raises JSONDecodeError: caught inside the loop;
\*   data.get on a value that is no dict raises AttributeError: caught only
\*   by the handler around the loop, which ends listen_for_messages.
RelayStep(m, link, rc) ==
  IF m.type # "message"
  THEN [item |-> m, calls |-> <<>>, broker |-> <<>>, alive |-> TRUE]
  ELSE IF m.data = "notjson"
  THEN [item |-> m, calls |-> <<>>, broker |-> <<>>, alive |-> TRUE]
  ELSE IF m.data # "object"
  THEN [item |-> m, calls |-> <<>>, broker |-> <<>>, alive |-> FALSE]
  ELSE IF Forwardable(m.topic, m.payload)
  THEN [item |-> m,
        calls |-> <<[topic |-> m.topic, payload |-> m.payload]>>,
        broker |-> publish_message(m.topic, m.payload, link, rc).broker,
        alive |-> TRUE]
  ELSE [item |-> m, calls |-> <<>>, broker |-> <<>>, alive |-> TRUE]

RelayInit ==
  /\ relayAlive = TRUE
  /\ relayLog = <<>>

listen_for_messages(m, link, rc) ==
  /\ relayAlive
  /\ Len(relayLog) < MaxItems
  /\ relayLog' = Append(relayLog, RelayStep(m, link, rc))
  /\ relayAlive' = RelayStep(m, link, rc).alive
  /\ UNCHANGED <<corrVars, cmdVars>>

RelayNext ==
  \E m \in Items, link \in Links, rc \in ResultCodes : listen_for_messages(m, link, rc)

(* ---------------------------------------------------------------------- *)
(* Specifications                                                          *)
(* ---------------------------------------------------------------------- *)
vars == <<corrVars, cmdVars, relayVars>>

Init == CorrInit /\ CmdInit /\ RelayInit

\* the connection tests of one subject
Next == CorrNextOver({BIKE_ID})
Spec == Init /\ [][Next]_vars

NextCommand == CmdNext
SpecCommand == Init /\ [][NextCommand]_vars

NextRelay == RelayNext
SpecRelay == Init /\ [][NextRelay]_vars

\* The connection tests of two subjects.  The subjects are interchangeable,
\* so the first request is taken to be for BIKE_ID; every probe publish
\* reaches a receiver (the count is not read by test_bike_connection).
SubjectsFor(p) == IF p = 1 THEN {BIKE_ID} ELSE Bikes

NextTwo ==
  \/ \E p \in Probes : \E b \in SubjectsFor(p) : create_event(p, b)
  \/ \E p \in Probes, t \in Timeouts : wait_for_response(p, t)
  \/ \E p \in Probes : wait_success(p)
  \/ \E p \in Probes : wait_timeout(p)
  \/ \E b \in Bikes : set_response(b)
  \/ \E p \in Probes : \E b \in SubjectsFor(p) : tbc_publish(p, b, 1)
  \/ \E p \in Probes : tbc_set_waiting(p)
  \/ \E p \in Probes : tbc_poll(p)
  \/ \E p \in Probes : tbc_wake(p)
  \/ \E b \in Bikes : handle_bike_response(b)
  \/ Tick
SpecTwo == Init /\ [][NextTwo]_vars

(* ---------------------------------------------------------------------- *)
(* Properties                                                              *)
(* ---------------------------------------------------------------------- *)

\* the probe of a polled connection test reached at least one receiver
Dispatched(p) == form[p] = "polled" => pubCount[p] > 0

\* C1: a test_bike_connection whose publish of the connect probe reached no
\* receiver creates no pending wait: it never writes the waiting record and
\* never polls, and when it has returned its status is failed.
C1_FailedPublishCreatesNoWait ==
  \A p \in Probes :
    (form[p] = "polled" /\ pubCount[p] = 0) =>
      /\ pc[p] \notin {"poll", "sleep"}
      /\ polls[p] = 0
      /\ Done(p) => result[p] = "failed"

\* C2 (the probes of the polled form delivered): probe B is created for a subject while the await of probe A for the
\* same subject is under way; if exactly one signal for the subject occurs,
\* and it occurs after B's create, it resolves at most B: A does not return
\* success.
C2_SingleSignalResolvesOnlyLatest ==
  \A a, b \in Probes :
    (a \in prior[b] /\ Dispatched(a) /\ Dispatched(b)
       /\ nsig[bike[b]] = 1 /\ sigAfter[b] = 1) =>
      result[a] # "success"

\* C3: the latest create for a subject is satisfiable: if probe p is the
\* most recent create for its subject and a signal for the subject occurred
\* during p's await and before p's deadline, then p's await returns success.
C3_LatestCreateSatisfiable ==
  \A p \in Probes :
    (Done(p) /\ Dispatched(p) /\ latest[bike[p]] = p /\ sigInTime[p]) =>
      result[p] = "success"

\* C5: after create followed immediately by signal (no other operation on
\* the subject in between) and then the await, with any timeout > 0, the
\* await returns success: it is never failed and never raises.
C5_CreateSignalAwaitSucceeds ==
  \A p \in Probes :
    track[p] = "awaited" =>
      /\ result[p] \in {"none", "success"}
      /\ Done(p) => result[p] = "success"
      /\ pc[p] = "waiting" => eventSet[waitEv[p]] /\ timer[p] > 0

\* both forms have gone through create, signal, await and returned success
C5_Witness ==
  \E p, q \in Probes :
    /\ form[p] = "inprocess" /\ track[p] = "awaited" /\ result[p] = "success"
    /\ form[q] = "polled" /\ track[q] = "awaited" /\ result[q] = "success"

\* C6: an await during which no signal for the subject was issued returns
\* failed, in the polled form no later than the timeout budget plus one
\* poll interval, and then no pending entry is left: a signal issued after
\* it returned, with no other wait pending for the subject, reports no
\* waiter (the error shape / False).
C6_TimeoutRemovesPendingEntry ==
  \A p \in Probes :
    (Done(p) /\ Dispatched(p) /\ sigAfter[p] = 0 /\ result[p] # "KeyError") =>
      /\ result[p] = "failed"
      /\ form[p] = "polled" => Elapsed(p) <= PollCount * SleepSecs + SleepSecs
      /\ (form[p] = "polled" /\ lastAck.bike = bike[p] /\ p \in lastAck.done
            /\ ~lastAck.waiter) => lastAck.status = "error"
      /\ (form[p] = "inprocess" /\ lastSet.bike = bike[p] /\ p \in lastSet.done
            /\ ~lastSet.waiter) => lastSet.status = "False"

\* C10: an acknowledgment handled by handle_bike_response for a subject with
\* no pending wait is answered with the error shape, not the success shape.
C10_UnexpectedAckIsError ==
  (lastAck.bike # "none" /\ ~lastAck.waiter) => lastAck.status = "error"

\* C8: send_command with an action outside {forward, backward, left, right,
\* stop, center} ends in the validation error (HTTP 400) and has published
\* nothing.
C8_InvalidCommandNeverPublished ==
  \A i \in 1..Len(cmdLog) :
    (cmdLog[i].op = "send_command"
       /\ cmdLog[i].command \notin {"forward", "backward", "left", "right", "stop", "center"}) =>
      /\ cmdLog[i].published = <<>>
      /\ cmdLog[i].outcome.kind = "HTTPException"
      /\ cmdLog[i].outcome.status = "400"

\* a rejected command (spin) is in the log
C8_Witness ==
  \E i \in 1..Len(cmdLog) :
    /\ cmdLog[i].op = "send_command" /\ cmdLog[i].command = "spin"
    /\ cmdLog[i].outcome.status = "400"

\* C9: send_command with a valid action, and send_navigation, publish
\* exactly once; the call reports sent with the transport's delivery count
\* when that count is greater than zero and a dispatch failure (HTTP 500)
\* when it is zero.
C9_OnePublishOutcomeByCount ==
  \A i \in 1..Len(cmdLog) :
    (\/ cmdLog[i].op = "send_navigation"
     \/ cmdLog[i].command \in {"forward", "backward", "left", "right", "stop", "center"}) =>
      /\ Len(cmdLog[i].published) = 1
      /\ cmdLog[i].published[1].topic = BIKE_ID
      /\ cmdLog[i].published[1].command = cmdLog[i].command
      /\ cmdLog[i].count > 0 =>
           /\ cmdLog[i].outcome.kind = "return"
           /\ cmdLog[i].outcome.status = "sent"
           /\ cmdLog[i].outcome.redis_receivers = cmdLog[i].count
      /\ cmdLog[i].count = 0 =>
           /\ cmdLog[i].outcome.kind = "HTTPException"
           /\ cmdLog[i].outcome.status = "500"

\* a command that was sent and a navigation that found no receiver
C9_Witness ==
  \E i, j \in 1..Len(cmdLog) :
    /\ cmdLog[i].op = "send_command" /\ cmdLog[i].outcome.status = "sent"
    /\ cmdLog[i].outcome.redis_receivers = MaxReceivers
    /\ cmdLog[j].op = "send_navigation" /\ cmdLog[j].outcome.status = "500"

\* an item whose data does not parse as a RelayMessage: not JSON, JSON that
\* is no object, or an object without topic or without payload
Malformed(m) ==
  /\ m.type = "message"
  /\ \/ m.data # "object"
     \/ m.topic = "absent"
     \/ m.payload = "absent"

\* an envelope in which both fields are present
BothPresent(m) ==
  m.type = "message" /\ m.data = "object" /\ m.topic # "absent" /\ m.payload # "absent"

\* C4: a malformed message is skipped with no broker publish and the relay
\* loop stays alive for the next message.
C4_MalformedNeverStopsRelay ==
  \A i \in 1..Len(relayLog) :
    Malformed(relayLog[i].item) =>
      /\ relayLog[i].calls = <<>>
      /\ relayLog[i].broker = <<>>
      /\ relayLog[i].alive

\* C7: an envelope is forwarded exactly when both topic and payload are
\* present, and then by exactly one call of the broker publish with that
\* topic and that payload; an envelope missing either causes no call.
C7_ForwardIffBothPresent ==
  \A i \in 1..Len(relayLog) :
    relayLog[i].item.type = "message" =>
      IF BothPresent(relayLog[i].item)
      THEN relayLog[i].calls = <<[topic |-> relayLog[i].item.topic,
                                  payload |-> relayLog[i].item.payload]>>
      ELSE relayLog[i].calls = <<>>

\* C11: when a signal for its subject comes during the await of the latest
\* probe and before its deadline, the probe returns success promptly: in the
\* in-process form no second passes before it returns, in the polled form at
\* most one poll interval, and the result is success.
C11_AckBeforeDeadlineReturnsPromptly ==
  \A p \in Probes :
    (pc[p] # "idle" /\ Dispatched(p) /\ latest[bike[p]] = p /\ sigInTime[p]) =>
      /\ sinceSig[p] <= (IF form[p] = "polled" THEN SleepSecs ELSE 0)
      /\ Done(p) => result[p] = "success"

\* C12: set_response returns True exactly when an entry for the subject
\* existed at the call, and then that entry's event is set; a subject for
\* which create_event was never issued gets False; a call that returns
\* False leaves pending_responses as it was.
C12_SetResponseReportsEntry ==
  lastSet.bike # "none" =>
    /\ lastSet.bike = setNote.bike
    /\ lastSet.status = "True" <=> setNote.entry # NoProbe
    /\ lastSet.status \in {"True", "False"}
    /\ setNote.entry # NoProbe => setNote.fired
    /\ ~setNote.ever => lastSet.status = "False"
    /\ lastSet.status = "False" => setNote.kept

\* set_response has returned True for one wait and then False once the
\* entry was gone
C12_Witness ==
  /\ lastSet.status = "False" /\ setNote.ever /\ setNote.entry = NoProbe
  /\ \E p \in Probes : form[p] = "inprocess" /\ result[p] = "success"

\* the in-process connection tests that have created and not yet returned
TrackerInFlight == {p \in Probes : form[p] = "inprocess" /\ InFlight(p)}
Entries == {b \in Bikes : pending_responses[b] # NoProbe}

\* C13: pending_responses never holds more entries than there are awaits in
\* flight, and once every await has returned it holds none.
C13_NoLeakedEntries ==
  /\ Cardinality(Entries) <= Cardinality(TrackerInFlight)
  /\ TrackerInFlight = {} => Entries = {}

\* two in-process probes have returned, one by success and one by timeout
C13_Witness ==
  /\ TrackerInFlight = {}
  /\ \E p, q \in Probes :
       /\ form[p] = "inprocess" /\ result[p] = "success"
       /\ form[q] = "inprocess" /\ result[q] = "failed"

\* C14: the status only moves forward: no step changes an acknowledged
\* record back to waiting, and no step clears an event that is set.
C14_NoStepOutOfAcknowledged ==
  [][/\ \A b \in Bikes :
          store[b].val = "acknowledged" => store'[b].val # "waiting"
     /\ \A p \in Probes : eventSet[p] => eventSet'[p]]_vars

\* C15: every wait that has ended has returned a result whose status is
\* success or failed; it never ends by raising.
C15_WaitNeverRaises ==
  \A p \in Probes : Done(p) => result[p] \in {"success", "failed"}

\* C16: after handle_bike_response the record of the subject reads
\* acknowledged, whatever it read before (absent or expired, waiting,
\* acknowledged), and a second call leaves the record as one call left it.
C16_SignalAlwaysRecords ==
  /\ ackNote.bike # "none" =>
       /\ ackNote.after.val = "acknowledged"
       /\ ackNote.after.ttl = AckTTL
  /\ \A b \in Bikes :
       /\ AckWrite(store, b)[b].val = "acknowledged"
       /\ AckWrite(AckWrite(store, b), b) = AckWrite(store, b)
       /\ \A c \in Bikes \ {b} : AckWrite(store, b)[c] = store[c]

\* handle_bike_response has been called on an absent record and again on
\* the acknowledged one
C16_Witness ==
  /\ nsig[BIKE_ID] = 2
  /\ ackNote.bike = BIKE_ID /\ ackNote.before = "acknowledged"
  /\ \A p \in Probes : pc[p] = "idle"

\* C17: a probe returns success only if a signal for its subject was issued
\* after its own create (while it was in flight); an acknowledgment recorded
\* before the create never makes it succeed.
C17_SuccessOnlyOnOwnAck ==
  \A p \in Probes :
    result[p] = "success" => sigAfter[p] >= 1

\* a polled probe found an acknowledgment recorded before its create and
\* succeeded only on a later one
C17_Witness ==
  /\ nsig[BIKE_ID] = 2
  /\ \E p \in Probes :
       /\ form[p] = "polled" /\ result[p] = "success" /\ sigAfter[p] = 1
       /\ \A q \in Probes \ {p} : pc[q] = "idle"

\* the only probe of its subject
Alone(p) == \A q \in Probes \ {p} : bike[q] # bike[p]

\* C18 (for acknowledgments handled once the waiting record is written): in
\* the polled form, with a single probe for the subject, an acknowledgment
\* handled before the probe's deadline is not lost: test_bike_connection
\* returns success.
C18_AckNeverLost ==
  \A p \in Probes :
    (Done(p) /\ form[p] = "polled" /\ Alone(p) /\ Dispatched(p) /\ sigInTime[p]) =>
      result[p] = "success"

\* the step is a create, signal, await or cleanup for subject x
OpOn(x) ==
  \/ nsig'[x] # nsig[x]
  \/ \E p \in Probes : bike'[p] = x /\ pc'[p] # pc[p]

\* the step leaves the entry, the record and the waits of subject y alone
Untouched(y) ==
  /\ store'[y] = store[y]
  /\ pending_responses'[y] = pending_responses[y]
  /\ \A q \in Probes :
       bike[q] = y =>
         /\ pc'[q] = pc[q] /\ result'[q] = result[q]
         /\ eventSet'[q] = eventSet[q] /\ waitEv'[q] = waitEv[q]
         /\ timer'[q] = timer[q] /\ polls'[q] = polls[q]

\* C19: an operation for subject x changes neither the entry, the record nor
\* a wait of another subject y, and the outcome of a wait on y is decided by
\* y's own signals: it succeeds only if y was signalled, and the only probe
\* of y never finds its entry removed.
C19_SubjectsIsolated ==
  /\ [][\A x \in Bikes : OpOn(x) => \A y \in Bikes \ {x} : Untouched(y)]_vars
  /\ [](\A p \in Probes :
          /\ result[p] = "success" => nsig[bike[p]] >= 1
          /\ (Done(p) /\ Alone(p)) => result[p] # "KeyError"
          /\ (Done(p) /\ Alone(p) /\ form[p] = "inprocess" /\ sigInTime[p]) =>
               result[p] = "success")

\* a probe of one subject succeeded on its signal while a probe of the other
\* subject, never signalled, ran to its timeout
C19_Witness ==
  \E p, q \in Probes :
    /\ bike[p] = "b1" /\ bike[q] = "b2"
    /\ form[p] = "inprocess" /\ form[q] = "inprocess"
    /\ result[p] = "success" /\ result[q] = "failed"
    /\ nsig["b1"] >= 1 /\ nsig["b2"] = 0

====
